---- MODULE Spec2Model ----
(***************************************************************************)
(* A model of the Google image scraper: the URL extraction session         *)
(* (find_image_urls: text scan, click fallback, merge, truncate,           *)
(* normalize, browser release), the save phase (save_images) and the CLI   *)
(* loop over search terms.  URLs are TLA+ strings; the filters and the     *)
(* normalization work on their characters as the code does.                *)
(***************************************************************************)
EXTENDS Integers, Sequences, FiniteSets, TLC

VARIABLES
    number_of_images,    \* the target count passed to find_image_urls
    pc,                  \* position of the session in find_image_urls
    browser,             \* "none" | "open" | "closed"
    page,                \* "none" | "open" | "closed"
    exc,                 \* exception in flight: "none" | "Exception" | "CancelledError"
    failedAt,            \* the step that raised it ("none" when none did)
    scriptsSeen,         \* script tags the extraction script has visited
    metasSeen,           \* meta tags the extraction script has visited
    fullResUrls,         \* the extraction script's array (pushes in encounter order)
    full_res_urls,       \* the Python list: text-scan result, later merged
    primary,             \* history: the text-scan result as page.evaluate returned it
    ranFallback,         \* history: the click fallback branch was entered
    scrolls,             \* scroll-to-bottom calls issued on the page
    containers,          \* len(image_containers)
    i,                   \* containers visited by the click loop
    sel,                 \* selection strategies tried on the current container
    clicks,              \* container clicks issued on the page
    keys,                \* Escape key presses issued on the page
    events,              \* history: the click loop's clicks, appends and key presses
    clicked_urls,        \* URLs appended by the click fallback
    image_urls,          \* the truncated list, before normalization
    cleaned_image_urls,  \* the normalized list
    json,                \* the JSON artifacts the session has written
    returned,            \* the list handed to the caller (empty until outcome is "returned")
    outcome              \* "running" | "returned" | "raised"

\* The save phase: one call of save_images.
VARIABLES
    s_impl,              \* "legacy" (GoogleImageScraper.py) or "modular" (core/scraper.py)
    s_image_urls,        \* the list it is given (the URLs are named by their index)
    s_pc,                \* the step the call is at
    index,               \* entries of the list the loop has been through
    attempts,            \* the downloads started, in order: <<index, outcome>> records
    saved,               \* the indices whose image file was written
    downloaded_count,    \* the class method's success counter
    failed_count,        \* the class method's failure counter
    s_exc,               \* the exception leaving the call ("none" when none)
    s_result,            \* what the call returned ("none" until it returns)
    max_missed           \* the session's max_missed setting

saveVars == <<s_impl, s_image_urls, s_pc, index, attempts, saved, downloaded_count,
              failed_count, s_exc, s_result, max_missed>>

\* The command line: one run of main (cli.py, or cli/main.py of the package).
VARIABLES
    c_impl,              \* "legacy" (cli.py) or "modular" (cli/main.py)
    args,                \* the command-line arguments as typed
    config,              \* the ScrapingConfig built from them ("none" until then)
    c_pc,                \* the step main is at
    term,                \* search terms main has been through
    results,             \* the result records, in the order they were appended
    raisedTerms,         \* the positions of the terms whose scrape raised
    launches,            \* calls of find_image_urls, each of which launches a browser
    summary,             \* the records the summary showed ("none" until it is printed)
    written,             \* the image files written: term position, index and path
    scrapes              \* per term: the URLs found and how the download phase ended

cliVars == <<c_impl, args, config, c_pc, term, results, raisedTerms, launches, summary,
             written, scrapes>>

\* The helpers of utils/helpers.py and the post-processing steps, called alone.
VARIABLES
    u_pc,                \* "ready" for a call, "called" after one
    u_fn,                \* the function called ("none" before the first call)
    u_args,              \* its arguments
    u_result,            \* what it returned
    u_again              \* the call was made on the result of the call before

utilVars == <<u_pc, u_fn, u_args, u_result, u_again>>

sessionVars == <<number_of_images, pc, browser, page, exc, failedAt, scriptsSeen,
                 metasSeen, fullResUrls, full_res_urls, primary, ranFallback, scrolls,
                 containers, i, sel, clicks, keys, events, clicked_urls, image_urls,
                 cleaned_image_urls, json, returned, outcome>>

vars == <<sessionVars, saveVars, cliVars, utilVars>>

-----------------------------------------------------------------------------
(* Bounds of the model.                                                    *)

MaxTarget == 2          \* largest target count tried
MaxScripts == 1         \* script tags on a page
MaxMetaTags == 1        \* meta tags on a page
MaxMatches == 2         \* regular-expression matches in one text blob
MaxTerms == 2           \* search terms on one command line
MaxFound == 1           \* URLs one term's search returns
MaxMissed == 2          \* largest max_missed setting tried
MaxDim == 3             \* largest width or height tried, in pixels
MaxList == 2            \* entries of a list handed to a helper
MaxUrls == 3            \* URLs handed to one save phase
MaxContainers == 1      \* clickable image containers on a page (whole session)
MaxClickContainers == 3 \* clickable image containers on a page (click loop alone)

-----------------------------------------------------------------------------
(* Strings.                                                                *)

Min(a, b) == IF a <= b THEN a ELSE b
Max(a, b) == IF a >= b THEN a ELSE b

\* JavaScript String.prototype.includes / Python "p in s": substring search.
includes(s, p) ==
    \E k \in 1..(Len(s) - Len(p) + 1) : SubSeq(s, k, k + Len(p) - 1) = p

RECURSIVE Pad(_)
Pad(n) == IF n <= 0 THEN "" ELSE "a" \o Pad(n - 1)

\* A URL of exactly n characters with the given head and tail.
MkUrl(head, tail, n) == head \o Pad(n - Len(head) - Len(tail)) \o tail

SeqsUpTo(S, n) == UNION {[1..k -> S] : k \in 0..n}

Range(s) == {s[k] : k \in 1..Len(s)}

-----------------------------------------------------------------------------
(* URL normalization: decode_url (utils/helpers.py) and the inline copy in  *)
(* the legacy find_image_urls.  Characters are one-character strings.       *)

\* The printable ASCII characters: code points 32..95 and 97..126 in order
\* (code point 96 cannot be written in a string of this language).
AsciiLow == " !\"#$%&'()*+,-./0123456789:;<=>?@ABCDEFGHIJKLMNOPQRSTUVWXYZ[\\]^_"
AsciiHigh == "abcdefghijklmnopqrstuvwxyz{|}~"

HexDigits == "0123456789abcdefABCDEF"

IsHex(c) == Len(c) = 1 /\ includes(HexDigits, c)

\* The value of one hexadecimal digit.
HexVal(c) ==
    LET k == CHOOSE j \in 1..Len(HexDigits) : SubSeq(HexDigits, j, j) = c
    IN  IF k <= 16 THEN k - 1 ELSE k - 7

AllHex(s) == \A k \in 1..Len(s) : IsHex(SubSeq(s, k, k))

RECURSIVE HexNumber(_)
HexNumber(s) ==
    IF s = "" THEN 0
    ELSE 16 * HexNumber(SubSeq(s, 1, Len(s) - 1)) + HexVal(SubSeq(s, Len(s), Len(s)))

\* The characters outside printable ASCII that the model can write: tab, line
\* feed, form feed, carriage return, and four of Latin-1 with their codes.
Controls == "\t\n\f\r"
ControlCodes == <<9, 10, 12, 13>>
Latin1Chars == "©ÂÃé"
Latin1Codes == <<169, 194, 195, 233>>

\* Every other character is shown as this one.
OtherChar == "□"

\* U+FFFD, which a decoder with errors='replace' puts for undecodable bytes.
ReplacementChar == "�"

\* chr(n)
Chr(n) ==
    IF n >= 32 /\ n <= 95 THEN SubSeq(AsciiLow, n - 31, n - 31)
    ELSE IF n >= 97 /\ n <= 126 THEN SubSeq(AsciiHigh, n - 96, n - 96)
    ELSE IF \E k \in 1..4 : ControlCodes[k] = n
         THEN LET k == CHOOSE k \in 1..4 : ControlCodes[k] = n IN SubSeq(Controls, k, k)
    ELSE IF \E k \in 1..4 : Latin1Codes[k] = n
         THEN LET k == CHOOSE k \in 1..4 : Latin1Codes[k] = n IN SubSeq(Latin1Chars, k, k)
    ELSE OtherChar

\* The first position of character c in s, 0 when it does not occur.
FirstIndex(s, c) ==
    LET at == {k \in 1..Len(s) : SubSeq(s, k, k) = c}
    IN  IF at = {} THEN 0 ELSE CHOOSE k \in at : \A j \in at : k <= j

\* The characters of the model's strings that are outside ASCII.
NonAscii == {"©", "Â", "Ã", "é", OtherChar, ReplacementChar}

IsAscii(c) == c \notin NonAscii

\* One character outside ASCII, encoded in UTF-8 and its bytes read as
\* Latin-1: two characters for a code point below U+0800, three above.
Utf8AsLatin1(c) ==
    LET k == FirstIndex(Latin1Chars, c)
    IN  IF k = 0 THEN OtherChar \o OtherChar \o OtherChar
        ELSE Chr(192 + (Latin1Codes[k] \div 64)) \o Chr(128 + (Latin1Codes[k] % 64))

\* url.encode('utf-8') read back byte by byte, as the unicode_escape codec does.
RECURSIVE EncodedAsLatin1(_)
EncodedAsLatin1(s) ==
    LET at == {k \in 1..Len(s) : ~IsAscii(SubSeq(s, k, k))}
        k == CHOOSE k \in at : \A j \in at : k <= j
    IN  IF at = {} THEN s
        ELSE SubSeq(s, 1, k - 1) \o Utf8AsLatin1(SubSeq(s, k, k))
                 \o EncodedAsLatin1(SubSeq(s, k + 1, Len(s)))

OctalDigits == "01234567"

\* The number an octal string is.
RECURSIVE OctNumber(_)
OctNumber(s) ==
    IF s = "" THEN 0
    ELSE 8 * OctNumber(SubSeq(s, 1, Len(s) - 1))
             + FirstIndex(OctalDigits, SubSeq(s, Len(s), Len(s))) - 1

\* How many of the up to three characters from position k on are octal digits,
\* counted from the first.
OctalRun(s, k) ==
    LET isOct(j) == j <= Len(s) /\ includes(OctalDigits, SubSeq(s, j, j))
    IN  IF ~isOct(k) THEN 0
        ELSE IF ~isOct(k + 1) THEN 1
        ELSE IF ~isOct(k + 2) THEN 2
        ELSE 3

\* The characters the one-letter escapes stand for.
SimpleEscape(n) ==
    CASE n = "a" -> Chr(7)
      [] n = "b" -> Chr(8)
      [] n = "f" -> Chr(12)
      [] n = "n" -> Chr(10)
      [] n = "r" -> Chr(13)
      [] n = "t" -> Chr(9)
      [] n = "v" -> Chr(11)
      [] OTHER -> n

\* The escapes of the unicode_escape codec in a string of Latin-1 characters:
\* [ok, s].  Backslash and: a line feed (both dropped); a backslash or a quote
\* (itself); a b f n r t v (the control character); one to three octal digits;
\* x, u, U with two, four, eight hexadecimal digits.  A truncated x, u or U
\* escape, a code above U+10FFFF, a backslash ending the string and a
\* character name the codec does not know (no name is modelled) raise
\* UnicodeDecodeError.  Any other escaped character stays with its backslash.
RECURSIVE DecodeEscapes(_)
DecodeEscapes(s) ==
    LET k == FirstIndex(s, "\\")
        n == IF k < Len(s) THEN SubSeq(s, k + 1, k + 1) ELSE ""
        width == IF n = "x" THEN 2 ELSE IF n = "u" THEN 4 ELSE IF n = "U" THEN 8 ELSE 0
        digits == SubSeq(s, k + 2, Min(Len(s), k + 1 + width))
        octal == OctalRun(s, k + 1)
        done(t, used) ==
            LET rest == DecodeEscapes(SubSeq(s, k + 1 + used, Len(s)))
            IN  [ok |-> rest.ok, s |-> SubSeq(s, 1, k - 1) \o t \o rest.s]
        failed == [ok |-> FALSE, s |-> ""]
    IN  IF k = 0 THEN [ok |-> TRUE, s |-> s]
        ELSE IF n = "" THEN failed
        ELSE IF width > 0
             THEN IF Len(digits) = width /\ AllHex(digits) /\ HexNumber(digits) <= 1114111
                  THEN done(Chr(HexNumber(digits)), 1 + width)
                  ELSE failed
        ELSE IF octal > 0 THEN done(Chr(OctNumber(SubSeq(s, k + 1, k + octal))), octal)
        ELSE IF n = "N" THEN failed
        ELSE IF n = "\n" THEN done("", 1)
        ELSE IF n \in {"\\", "'", "\""} THEN done(n, 1)
        ELSE IF n \in {"a", "b", "f", "n", "r", "t", "v"} THEN done(SimpleEscape(n), 1)
        ELSE done("\\" \o n, 1)

\* url.encode('utf-8').decode('unicode_escape')
unicode_escape(s) == DecodeEscapes(EncodedAsLatin1(s))

\* The bytes of a run of percent escapes starting at the head of s, and the
\* rest of s behind the run.
RECURSIVE PercentRun(_)
PercentRun(s) ==
    LET digits == SubSeq(s, 2, Min(Len(s), 3))
    IN  IF Len(s) >= 3 /\ SubSeq(s, 1, 1) = "%" /\ AllHex(digits)
        THEN LET more == PercentRun(SubSeq(s, 4, Len(s)))
             IN  [bytes |-> <<HexNumber(digits)>> \o more.bytes, rest |-> more.rest]
        ELSE [bytes |-> <<>>, rest |-> s]

\* bytes.decode('utf-8', errors='replace').  A lead byte with all its
\* continuation bytes is one character (the tests on overlong and surrogate
\* forms of three- and four-byte sequences are left out); a byte that cannot
\* start a character, or a lead byte with the continuation bytes it has, is one
\* replacement character.
RECURSIVE Utf8Decode(_)
Utf8Decode(b) ==
    LET b1 == b[1]
        need == IF b1 >= 194 /\ b1 <= 223 THEN 1
                ELSE IF b1 >= 224 /\ b1 <= 239 THEN 2
                ELSE IF b1 >= 240 /\ b1 <= 244 THEN 3
                ELSE 0
        isCont(j) == j <= Len(b) /\ b[j] >= 128 /\ b[j] <= 191
        have == IF need >= 1 /\ isCont(2)
                THEN IF need >= 2 /\ isCont(3)
                     THEN IF need >= 3 /\ isCont(4) THEN 3 ELSE 2
                     ELSE 1
                ELSE 0
        char == IF b1 < 128 THEN Chr(b1)
                ELSE IF need = 0 \/ have < need THEN ReplacementChar
                ELSE IF need = 1 THEN Chr((b1 - 192) * 64 + (b[2] - 128))
                ELSE OtherChar
    IN  IF b = <<>> THEN ""
        ELSE char \o Utf8Decode(SubSeq(b, 2 + have, Len(b)))

\* urllib.parse.unquote: each run of %XX escapes is the UTF-8 text of its
\* bytes; a % without two hexadecimal digits is kept.
RECURSIVE unquote(_)
unquote(s) ==
    LET k == FirstIndex(s, "%")
        run == PercentRun(SubSeq(s, k, Len(s)))
    IN  IF k = 0 THEN s
        ELSE IF run.bytes = <<>>
             THEN SubSeq(s, 1, k) \o unquote(SubSeq(s, k + 1, Len(s)))
        ELSE SubSeq(s, 1, k - 1) \o Utf8Decode(run.bytes) \o unquote(run.rest)

\* decode_url: backslash escapes first, percent escapes second; the original
\* string when decoding raises.
decode_url(url) ==
    LET decoded == unicode_escape(url)
    IN  IF decoded.ok THEN unquote(decoded.s) ELSE url


-----------------------------------------------------------------------------
(* The URLs and page contents the model draws from.                        *)

U95 == MkUrl("https://cdn.example.com/full/", ".jpg", 95)
U80 == MkUrl("https://cdn.example.com/img/", ".png", 80)
U60 == MkUrl("https://cdn.example.com/a/", ".jpg", 60)
ULOGO == MkUrl("https://cdn.example.com/logo/", ".png", 70)
UTBN == MkUrl("https://encrypted-tbn0.gstatic.com/images/", ".jpg", 72)
\* Two spellings of one address: a backslash-u escape for "=", and "=".
UESC == MkUrl("https://cdn.example.com/e/", ".jpg?k\\u003dv", 65)
UEQ == MkUrl("https://cdn.example.com/e/", ".jpg?k=v", 60)
\* An address whose path holds an encoded percent sign in front of "20".
UPCT == MkUrl("https://cdn.example.com/p%2520q/", ".jpg", 60)
\* Sources an enlarged-image element can carry.
C70 == MkUrl("https://origin.example.org/photo/", ".jpg", 70)
C50 == MkUrl("https://origin.example.org/p/", ".jpg", 50)
CDATA == MkUrl("data:image/jpeg;base64,", "=", 60)

\* Regular-expression matches a script tag's text can hold.
ScriptUrls == {U80, ULOGO}
\* content attributes a meta tag can carry.
MetaContents == {U60, ULOGO, UTBN}
\* Regular-expression matches the whole document's markup can hold.
DocUrls == {U95, UESC, UEQ, UTBN}
\* What a selection strategy can find: no visible element within the timeout
\* ("raise"), an element without src and data-src (""), or a source string.
SelectorOutcomes == {"raise", "", C70, U80, C50, UTBN, CDATA}

ScriptBlobs ==
    [arrayLiteral : BOOLEAN, urlMatches : SeqsUpTo(ScriptUrls, MaxMatches)]

-----------------------------------------------------------------------------
(* The extraction script evaluated in the page (text scan).                *)

\* url.length > 50: the whole-document threshold, and the click fallback's.
ThumbLen == 50

\* Method 1's test on a match found in a script tag.
ScriptFilter(url) ==
    /\ ~includes(url, "encrypted-tbn")
    /\ ~includes(url, "logo")
    /\ ~includes(url, "favicon")
    /\ ~includes(url, "/s90/")
    /\ ~includes(url, "/s100/")
    /\ ~includes(url, "/s150/")
    /\ ~includes(url, "=s64")
    /\ ~includes(url, "=s90")
    /\ ~includes(url, "=s100")

\* Method 1 on one script tag: the gate on its text, then the test per match.
\* The text holds "http" when a match with a lower-case scheme was found in it.
Method1(script) ==
    IF script.arrayLiteral /\ \E k \in 1..Len(script.urlMatches) :
                                  includes(script.urlMatches[k], "http")
    THEN SelectSeq(script.urlMatches, ScriptFilter)
    ELSE <<>>

\* The first match of the meta-tag pattern in an attribute value that is one
\* address: the value up to its last image extension (the pattern has no
\* query part); "" when there is none.
MetaMatch(content) ==
    LET ends == {k \in 1..Len(content) :
                    \E ext \in {".jpg", ".jpeg", ".png", ".webp", ".gif"} :
                        /\ k > Len(ext) + 7
                        /\ SubSeq(content, k - Len(ext) + 1, k) = ext}
    IN  IF ends = {} \/ ~(SubSeq(content, 1, 7) = "http://"
                          \/ SubSeq(content, 1, 8) = "https://")
        THEN ""
        ELSE SubSeq(content, 1, CHOOSE k \in ends : \A j \in ends : j <= k)

\* Method 2 on one meta tag.
Method2(content) ==
    IF /\ includes(content, "http")
       /\ (includes(content, ".jpg") \/ includes(content, ".png"))
       /\ MetaMatch(content) # ""
       /\ ~includes(MetaMatch(content), "encrypted-tbn")
    THEN <<MetaMatch(content)>>
    ELSE <<>>

\* Method 3's test on a match found in the whole document.
DocFilter(url) ==
    /\ ~includes(url, "encrypted-tbn")
    /\ ~includes(url, "logo")
    /\ ~includes(url, "favicon")
    /\ Len(url) > ThumbLen

Method3(matches) == SelectSeq(matches, DocFilter)

\* [...new Set(a)] and list(dict.fromkeys(a)): the first occurrence of each
\* string, in order.
RECURSIVE Unique(_)
Unique(a) ==
    IF a = <<>> THEN <<>>
    ELSE LET front == Unique(SubSeq(a, 1, Len(a) - 1))
             x == a[Len(a)]
         IN  IF x \in Range(front) THEN front ELSE Append(front, x)

\* The same step of a sort that puts x before the elements of its own length.
InsertBeforeTies(sorted, x) ==
    LET k == Cardinality({j \in 1..Len(sorted) : Len(sorted[j]) > Len(x)})
    IN  SubSeq(sorted, 1, k) \o <<x>> \o SubSeq(sorted, k + 1, Len(sorted))

\* One step of the stable sort: x goes behind every element at least as long.
InsertByLength(sorted, x) ==
    LET k == Cardinality({j \in 1..Len(sorted) : Len(sorted[j]) >= Len(x)})
    IN  SubSeq(sorted, 1, k) \o <<x>> \o SubSeq(sorted, k + 1, Len(sorted))

\* a.sort((a, b) => b.length - a.length): stable, longest first.
RECURSIVE SortByLength(_)
SortByLength(a) ==
    IF a = <<>> THEN <<>>
    ELSE InsertByLength(SortByLength(SubSeq(a, 1, Len(a) - 1)), a[Len(a)])

\* The value the extraction script returns for its array of pushes.
UniqueSorted(pushes) == SortByLength(Unique(pushes))

RECURSIVE Concat(_)
Concat(ss) == IF ss = <<>> THEN <<>> ELSE Head(ss) \o Concat(Tail(ss))

\* The whole script on a page [scripts, metas, doc].
TextScan(pg) ==
    UniqueSorted(Concat([k \in 1..Len(pg.scripts) |-> Method1(pg.scripts[k])])
                 \o Concat([k \in 1..Len(pg.metas) |-> Method2(pg.metas[k])])
                 \o Method3(pg.doc))

-----------------------------------------------------------------------------
(* The rest of find_image_urls.                                            *)

\* max(3, (number_of_images // 10) + 1)
ScrollFloor == 3
scroll_attempts(n) == Max(ScrollFloor, (n \div 10) + 1)

\* min(len(image_containers), number_of_images * 2)
max_attempts(n_containers, n) == Min(n_containers, n * 2)

\* The four selection strategies tried per container.
NumSelectors == 4

\* The test without its length condition.
AcceptSourceAnyLength(img_src) ==
    /\ img_src # ""
    /\ includes(img_src, "http")
    /\ ~includes(img_src, "encrypted-tbn")

\* The click fallback's test on an element's source.
AcceptSource(img_src) ==
    /\ img_src # ""
    /\ includes(img_src, "http")
    /\ ~includes(img_src, "encrypted-tbn")
    /\ Len(img_src) > ThumbLen

\* full_res_urls.extend(clicked_urls); list(dict.fromkeys(full_res_urls))
Merged(urls, clicked) == Unique(urls \o clicked)

\* a[:n] in Python: the first n entries, or all but the last -n when n < 0.
PySlice(a, n) ==
    IF n >= 0 THEN SubSeq(a, 1, Min(n, Len(a)))
    ELSE SubSeq(a, 1, Max(0, Len(a) + n))

\* full_res_urls[:number_of_images]
Truncated(urls, n) == PySlice(urls, n)

\* The cleaning loop: each entry decoded, or kept when decoding raises.
\* The cleaning loop with a handler that leaves a failed URL out.
CleanedDroppingFailures(urls) ==
    LET kept == SelectSeq(urls, LAMBDA url : unicode_escape(url).ok)
    IN  [k \in 1..Len(kept) |-> decode_url(kept[k])]

Cleaned(urls) == [k \in 1..Len(urls) |-> decode_url(urls[k])]


-----------------------------------------------------------------------------
(* The session: one call of find_image_urls.  The legacy function           *)
(* (GoogleImageScraper.py) and the class method (core/scraper.py) run the   *)
(* same steps; they differ in how an exception leaves (Propagate).          *)

\* --count is type=int: every integer is accepted.
TargetCounts == (0 - 1)..MaxTarget

SessionInit ==
    /\ number_of_images \in TargetCounts
    /\ pc = "launch"
    /\ browser = "none"
    /\ page = "none"
    /\ exc = "none"
    /\ failedAt = "none"
    /\ scriptsSeen = 0
    /\ metasSeen = 0
    /\ fullResUrls = <<>>
    /\ full_res_urls = <<>>
    /\ primary = <<>>
    /\ ranFallback = FALSE
    /\ scrolls = 0
    /\ containers = 0
    /\ i = 0
    /\ sel = 0
    /\ clicks = 0
    /\ keys = 0
    /\ events = <<>>
    /\ clicked_urls = <<>>
    /\ image_urls = <<>>
    /\ cleaned_image_urls = <<>>
    /\ json = {}
    /\ returned = <<>>
    /\ outcome = "running"

\* No save phase is under way.
SaveIdle ==
    /\ s_impl = "none"
    /\ s_image_urls = <<>>
    /\ s_pc = "idle"
    /\ index = 0
    /\ attempts = <<>>
    /\ saved = {}
    /\ downloaded_count = 0
    /\ failed_count = 0
    /\ s_exc = "none"
    /\ s_result = "none"
    /\ max_missed = 0

\* No helper is being called.
UtilIdle ==
    /\ u_pc = "idle"
    /\ u_fn = "none"
    /\ u_args = "none"
    /\ u_result = "none"
    /\ u_again = FALSE

\* No command line is being served.
CliIdle ==
    /\ c_impl = "none"
    /\ args = "none"
    /\ config = "none"
    /\ c_pc = "idle"
    /\ term = 0
    /\ results = <<>>
    /\ raisedTerms = {}
    /\ launches = 0
    /\ summary = "none"
    /\ written = {}
    /\ scrapes = <<>>

\* No session is under way.
SessionIdle ==
    /\ number_of_images = 0
    /\ pc = "idle"
    /\ browser = "none"
    /\ page = "none"
    /\ exc = "none"
    /\ failedAt = "none"
    /\ scriptsSeen = 0
    /\ metasSeen = 0
    /\ fullResUrls = <<>>
    /\ full_res_urls = <<>>
    /\ primary = <<>>
    /\ ranFallback = FALSE
    /\ scrolls = 0
    /\ containers = 0
    /\ i = 0
    /\ sel = 0
    /\ clicks = 0
    /\ keys = 0
    /\ events = <<>>
    /\ clicked_urls = <<>>
    /\ image_urls = <<>>
    /\ cleaned_image_urls = <<>>
    /\ json = {}
    /\ returned = <<>>
    /\ outcome = "idle"

browserVars == <<browser, page>>
scanVars == <<scriptsSeen, metasSeen, fullResUrls>>
listVars == <<full_res_urls, primary, image_urls, cleaned_image_urls>>
clickVars == <<containers, i, sel, clicked_urls>>
pageHistory == <<ranFallback, scrolls, clicks, keys, events>>
exitVars == <<exc, failedAt, json, returned, outcome>>

\* pw.chromium.launch: the browser exists from here on, or the launch raises
\* outside the try block.
Launch ==
    /\ pc = "launch"
    /\ \/ /\ browser' = "open"
          /\ pc' = "new_page"
          /\ UNCHANGED <<exc, failedAt>>
       \/ /\ exc' = "Exception"
          /\ failedAt' = "launch"
          /\ pc' = "propagate"
          /\ UNCHANGED browser
    /\ UNCHANGED <<saveVars, cliVars, utilVars, number_of_images, page, scanVars, listVars, clickVars, pageHistory,
                   json, returned, outcome>>

NewPage ==
    /\ pc = "new_page"
    /\ page' = "open"
    /\ pc' = "goto"
    /\ UNCHANGED <<saveVars, cliVars, utilVars, number_of_images, browser, scanVars, listVars, clickVars,
                   pageHistory, exitVars>>

\* page.goto, wait_for_load_state, wait_for_timeout
Goto ==
    /\ pc = "goto"
    /\ pc' = "evaluate"
    /\ UNCHANGED <<saveVars, cliVars, utilVars, number_of_images, browserVars, scanVars, listVars, clickVars,
                   pageHistory, exitVars>>

\* One turn of the loop over script tags.
ScanScript ==
    /\ pc = "evaluate"
    /\ scriptsSeen < MaxScripts
    /\ \E script \in ScriptBlobs :
           fullResUrls' = fullResUrls \o Method1(script)
    /\ scriptsSeen' = scriptsSeen + 1
    /\ UNCHANGED <<saveVars, cliVars, utilVars, number_of_images, pc, browserVars, metasSeen, listVars, clickVars,
                   pageHistory, exitVars>>

\* One turn of the loop over meta tags.
ScanMetaTag ==
    /\ pc \in {"evaluate", "scan_metas"}
    /\ metasSeen < MaxMetaTags
    /\ \E content \in MetaContents :
           fullResUrls' = fullResUrls \o Method2(content)
    /\ metasSeen' = metasSeen + 1
    /\ pc' = "scan_metas"
    /\ UNCHANGED <<saveVars, cliVars, utilVars, number_of_images, browserVars, scriptsSeen, listVars, clickVars,
                   pageHistory, exitVars>>

\* The scan of document.documentElement.innerHTML.
ScanDocument ==
    /\ pc \in {"evaluate", "scan_metas"}
    /\ \E matches \in SeqsUpTo(DocUrls, MaxMatches) :
           fullResUrls' = fullResUrls \o Method3(matches)
    /\ pc' = "unique_sort"
    /\ UNCHANGED <<saveVars, cliVars, utilVars, number_of_images, browserVars, scriptsSeen, metasSeen, listVars,
                   clickVars, pageHistory, exitVars>>

\* The script's return value becomes full_res_urls.
ReturnUrls ==
    /\ pc = "unique_sort"
    /\ full_res_urls' = UniqueSorted(fullResUrls)
    /\ primary' = UniqueSorted(fullResUrls)
    /\ pc' = "scanned"
    /\ UNCHANGED <<saveVars, cliVars, utilVars, number_of_images, browserVars, scanVars, image_urls,
                   cleaned_image_urls, clickVars, pageHistory, exitVars>>

\* The comparison with <= in place of <.
NeedFallbackInclusive(urls, n) == Len(urls) <= n

\* if len(full_res_urls) < number_of_images
NeedFallback(urls, n) == Len(urls) < n

CheckEnough ==
    /\ pc = "scanned"
    /\ IF NeedFallback(full_res_urls, number_of_images)
       THEN pc' = "scroll" /\ ranFallback' = TRUE
       ELSE pc' = "truncate" /\ UNCHANGED ranFallback
    /\ fullResUrls' = <<>>
    /\ UNCHANGED <<saveVars, cliVars, utilVars, number_of_images, browserVars, scriptsSeen, metasSeen, listVars,
                   clickVars, scrolls, clicks, keys, events, exitVars>>

\* window.scrollTo(0, document.body.scrollHeight), scroll_attempts times
Scroll ==
    /\ pc = "scroll"
    /\ scrolls' = scrolls + 1
    /\ pc' = IF scrolls + 1 >= scroll_attempts(number_of_images)
             THEN "locate" ELSE "scroll"
    /\ UNCHANGED <<saveVars, cliVars, utilVars, number_of_images, browserVars, scanVars, listVars, clickVars,
                   ranFallback, clicks, keys, events, exitVars>>

\* page.locator('div[data-ved]:has(img)').all()
Locate ==
    /\ pc = "locate"
    /\ containers' \in 0..MaxContainers
    /\ i' = 0
    /\ clicked_urls' = <<>>
    /\ pc' = "loop"
    /\ UNCHANGED <<saveVars, cliVars, utilVars, number_of_images, browserVars, scanVars, listVars, sel,
                   pageHistory, exitVars>>

\* The test without effect: the loop never breaks.
EnoughClickedNever(clicked, n) == FALSE

\* if len(clicked_urls) >= number_of_images: break
EnoughClicked(clicked, n) == Len(clicked) >= n

\* The loop is over, by exhaustion or by the break: the lists are combined.
LoopExit ==
    /\ pc = "loop"
    /\ \/ i >= max_attempts(containers, number_of_images)
       \/ EnoughClicked(clicked_urls, number_of_images)
    /\ full_res_urls' = Merged(full_res_urls, clicked_urls)
    /\ pc' = "truncate"
    /\ UNCHANGED <<saveVars, cliVars, utilVars, number_of_images, browserVars, scanVars, primary, image_urls,
                   cleaned_image_urls, clickVars, pageHistory, exitVars>>

\* One entry of the history: what was done for which container, and the
\* call that raised an Exception in it ("none" when none did).
Event(op, container, raised) == [op |-> op, container |-> container, raised |-> raised]

\* The container's handler with a raise in place of the continue.
OnContainerExceptionReraise(raised) == "raise"

\* except Exception: continue
OnContainerException(raised) == "continue"

\* Where the loop goes when a call of the container's try block raised.
AfterContainerException(raised) ==
    IF OnContainerException(raised) = "continue" THEN "loop" ELSE "finally"

\* container.click(timeout=3000) and the wait behind it.  An Exception from
\* either is swallowed by the container's handler and the loop continues.
Click ==
    /\ pc = "loop"
    /\ i < max_attempts(containers, number_of_images)
    /\ ~EnoughClicked(clicked_urls, number_of_images)
    /\ i' = i + 1
    /\ clicks' = clicks + 1
    /\ \/ /\ events' = Append(events, Event("click", i + 1, "none"))
          /\ pc' = "selector"
          /\ sel' = 0
       \/ \E raised \in {"click", "wait"} :
              /\ events' = Append(events, Event("click", i + 1, raised))
              /\ pc' = AfterContainerException(raised)
              /\ UNCHANGED sel
    /\ UNCHANGED <<saveVars, cliVars, utilVars, number_of_images, browserVars, scanVars, listVars, containers,
                   clicked_urls, ranFallback, scrolls, keys, exitVars>>

\* One selection strategy: whatever it raises is swallowed (bare except) and
\* the next strategy is tried; an accepted source ends the strategies.
TrySelector ==
    /\ pc = "selector"
    /\ sel < NumSelectors
    /\ \E img_src \in SelectorOutcomes :
           IF img_src # "raise" /\ AcceptSource(img_src)
           THEN /\ clicked_urls' = Append(clicked_urls, img_src)
                /\ events' = Append(events, Event("append", i, "none"))
                /\ pc' = "escape"
           ELSE /\ UNCHANGED <<clicked_urls, events>>
                /\ pc' = IF sel + 1 >= NumSelectors THEN "escape" ELSE "selector"
    /\ sel' = sel + 1
    /\ UNCHANGED <<saveVars, cliVars, utilVars, number_of_images, browserVars, scanVars, listVars, containers, i,
                   ranFallback, scrolls, clicks, keys, exitVars>>

\* page.keyboard.press('Escape') and the wait behind it: the key is sent, or
\* the press raises an Exception, which the container's handler swallows.
PressEscape ==
    /\ pc = "escape"
    /\ \/ /\ keys' = keys + 1
          /\ events' = Append(events, Event("escape", i, "none"))
          /\ pc' = "loop"
       \/ /\ events' = Append(events, Event("escape", i, "press"))
          /\ pc' = AfterContainerException("press")
          /\ UNCHANGED keys
    /\ UNCHANGED <<saveVars, cliVars, utilVars, number_of_images, browserVars, scanVars, listVars, clickVars,
                   ranFallback, scrolls, clicks, exitVars>>

\* Truncation and cleaning.
Finalize ==
    /\ pc = "truncate"
    /\ image_urls' = Truncated(full_res_urls, number_of_images)
    /\ cleaned_image_urls' = Cleaned(Truncated(full_res_urls, number_of_images))
    /\ pc' = "page_close"
    /\ UNCHANGED <<saveVars, cliVars, utilVars, number_of_images, browserVars, scanVars, full_res_urls, primary,
                   clickVars, pageHistory, exitVars>>

PageClose ==
    /\ pc = "page_close"
    /\ page' = "closed"
    /\ pc' = "finally"
    /\ UNCHANGED <<saveVars, cliVars, utilVars, number_of_images, browser, scanVars, listVars, clickVars,
                   pageHistory, exitVars>>

\* The same block without its finally clause.
UnwindPastFinally == "propagate"

\* Where an exception raised inside the try block goes: its finally clause.
UnwindTo == "finally"

\* The steps inside the try block at which an awaited call can raise an
\* Exception that nothing catches before the finally clause.
RaisingSteps == {"new_page", "goto", "evaluate", "scroll", "locate", "page_close"}
\* The steps at which cancellation of the task is not caught either: those,
\* and the click, wait and key press of the container loop, whose handler
\* catches Exception only.
CancellableSteps == RaisingSteps \cup {"loop", "escape"}

\* An awaited call raises: the frame unwinds and its lists are dropped.
Fail ==
    /\ \/ pc \in RaisingSteps /\ exc' = "Exception"
       \/ pc \in CancellableSteps /\ exc' = "CancelledError"
    /\ failedAt' = pc
    /\ pc' = UnwindTo
    /\ fullResUrls' = <<>>
    /\ full_res_urls' = <<>>
    /\ clicked_urls' = <<>>
    /\ image_urls' = <<>>
    /\ cleaned_image_urls' = <<>>
    /\ containers' = 0
    /\ i' = 0
    /\ sel' = 0
    /\ UNCHANGED <<saveVars, cliVars, utilVars, number_of_images, browserVars, scriptsSeen, metasSeen, primary,
                   pageHistory, json, returned, outcome>>

\* finally: await browser.close()
BrowserClose ==
    /\ pc = "finally"
    /\ browser' = "closed"
    /\ page' = IF page = "open" THEN "closed" ELSE page
    /\ pc' = IF exc = "none" THEN "save_json" ELSE "propagate"
    /\ UNCHANGED <<saveVars, cliVars, utilVars, number_of_images, scanVars, listVars, clickVars, pageHistory,
                   exitVars>>

\* save_urls_to_json decodes each URL it is given and writes the artifact.
JsonData(image_urls_arg) ==
    [total_urls |-> Len(Cleaned(image_urls_arg)), image_urls |-> Cleaned(image_urls_arg)]

\* The file-system operations of save_urls_to_json that can raise OSError.
FileOperations == {"json_makedirs", "json_open"}

\* except OSError: raise FileOperationError("save", filepath, str(e)).
\* filepath is assigned after os.makedirs, so reading it raises
\* UnboundLocalError when os.makedirs was the operation that failed.
OnOSError(operation) ==
    IF operation = "json_makedirs" THEN "UnboundLocalError" ELSE "FileOperationError"

\* save_urls_to_json and the return.  An empty list is returned at once.
\* Otherwise the artifact is written and the list returned; or an Exception
\* other than OSError is logged and the list returned without artifact; or
\* os.makedirs raises OSError, whose handler reads filepath before it is
\* assigned; or open raises OSError, which is reported as FileOperationError.
SaveAndReturn ==
    /\ pc = "save_json"
    /\ \/ /\ json' = IF cleaned_image_urls # <<>>
                     THEN json \cup {JsonData(cleaned_image_urls)}
                     ELSE json
          /\ returned' = cleaned_image_urls
          /\ outcome' = "returned"
          /\ pc' = "done"
          /\ UNCHANGED <<exc, failedAt>>
       \/ /\ cleaned_image_urls # <<>>
          /\ returned' = cleaned_image_urls
          /\ outcome' = "returned"
          /\ pc' = "done"
          /\ UNCHANGED <<json, exc, failedAt>>
       \/ /\ cleaned_image_urls # <<>>
          /\ \E operation \in FileOperations :
                 /\ failedAt' = operation
                 /\ exc' = OnOSError(operation)
          /\ pc' = "propagate"
          /\ UNCHANGED <<json, returned, outcome>>
    /\ UNCHANGED <<saveVars, cliVars, utilVars, number_of_images, browserVars, scanVars, listVars,
                   clickVars, pageHistory>>

\* The exception reaches the caller: as it is (legacy function, and the class
\* method for a cancellation), or wrapped in BrowserError (class method).
Propagate ==
    /\ pc = "propagate"
    /\ \/ UNCHANGED exc
       \/ exc # "CancelledError" /\ exc' = "BrowserError"
    /\ outcome' = "raised"
    /\ pc' = "done"
    /\ UNCHANGED <<saveVars, cliVars, utilVars, number_of_images, browserVars, scanVars, listVars,
                   clickVars, pageHistory, failedAt, json, returned>>

\* The results of the text scan the click loop is entered with.
TextScanResults == {<<>>, <<U80>>, <<UPCT>>}

\* The click loop alone: the state in which find_image_urls enters it, after
\* a text scan that came up short, the scrolls and the container lookup.
ClickInit ==
    /\ number_of_images \in 1..MaxTarget
    /\ full_res_urls \in {r \in TextScanResults : NeedFallback(r, number_of_images)}
    /\ primary = full_res_urls
    /\ containers \in 0..MaxClickContainers
    /\ pc = "loop"
    /\ browser = "open"
    /\ page = "open"
    /\ exc = "none"
    /\ failedAt = "none"
    /\ scriptsSeen = Len(full_res_urls)
    /\ metasSeen = 0
    /\ fullResUrls = <<>>
    /\ ranFallback = TRUE
    /\ scrolls = scroll_attempts(number_of_images)
    /\ i = 0
    /\ sel = 0
    /\ clicks = 0
    /\ keys = 0
    /\ events = <<>>
    /\ clicked_urls = <<>>
    /\ image_urls = <<>>
    /\ cleaned_image_urls = <<>>
    /\ json = {}
    /\ returned = <<>>
    /\ outcome = "running"

ClickNext ==
    \/ Click \/ TrySelector \/ PressEscape \/ LoopExit
    \/ Finalize \/ PageClose \/ Fail \/ BrowserClose \/ SaveAndReturn \/ Propagate

SessionNext ==
    \/ Launch \/ NewPage \/ Goto
    \/ ScanScript \/ ScanMetaTag \/ ScanDocument \/ ReturnUrls
    \/ CheckEnough \/ Scroll \/ Locate \/ Click \/ TrySelector \/ PressEscape
    \/ LoopExit \/ Finalize \/ PageClose \/ Fail \/ BrowserClose
    \/ SaveAndReturn \/ Propagate

Init == SessionInit /\ SaveIdle /\ CliIdle /\ UtilIdle

Next == SessionNext

Spec == Init /\ [][Next]_vars

InitClick == ClickInit /\ SaveIdle /\ CliIdle /\ UtilIdle

SpecClick == InitClick /\ [][ClickNext]_vars


-----------------------------------------------------------------------------
(* The save phase: one call of save_images, legacy function or class method. *)

\* What can happen to one URL: the download times out, fails otherwise, answers
\* with another status than 200; the bytes are no image; the image is outside
\* the resolution window; writing the file fails; or the file is written.
UrlOutcomes == {"timeout", "request_error", "non_200", "undecodable",
                "bad_resolution", "save_error", "ok"}

\* download_image: the response, or None; it lets no Exception out.
download_image(o) ==
    IF o \in {"timeout", "request_error", "non_200"} THEN "None" ELSE "response"

\* The except clause around one URL's decoding and saving.
OnItemExceptionReraise(o) == "raise"

OnItemException(o) == "continue"

\* How the loop body ends for one URL.
ItemResult(o) ==
    IF download_image(o) = "None" THEN "failed"
    ELSE IF o = "undecodable" THEN OnItemException(o)
    ELSE IF o = "bad_resolution" THEN "failed"
    ELSE IF o = "save_error" THEN OnItemException(o)
    ELSE "saved"

\* The failure counter with the increment of the except clause left out.
FailedIncrementOutsideHandler(o) == IF ItemResult(o) = "failed" THEN 1 ELSE 0

\* failed_count += 1: after a download that gave nothing, after a rejected
\* resolution, and in the except clause.
FailedIncrement(o) == IF ItemResult(o) \in {"failed", "continue"} THEN 1 ELSE 0

\* downloaded_count += 1, after _save_image returned.
DownloadedIncrement(o) == IF ItemResult(o) = "saved" THEN 1 ELSE 0

\* The max_missed settings tried.
MaxMissedValues == 1..MaxMissed

SaveInit ==
    /\ s_impl \in {"legacy", "modular"}
    /\ s_image_urls \in {[k \in 1..n |-> k] : n \in 0..MaxUrls}
    /\ s_pc = "makedirs"
    /\ index = 0
    /\ attempts = <<>>
    /\ saved = {}
    /\ downloaded_count = 0
    /\ failed_count = 0
    /\ s_exc = "none"
    /\ s_result = "none"
    /\ max_missed \in MaxMissedValues

\* The directory is there, is created, or os.makedirs raises.
MakeDirs ==
    /\ s_pc = "makedirs"
    /\ \/ s_pc' = "loop" /\ UNCHANGED s_exc
       \/ s_pc' = "raised" /\ s_exc' = "OSError"
    /\ UNCHANGED <<sessionVars, cliVars, utilVars, s_impl, s_image_urls, index, attempts, saved,
                   downloaded_count, failed_count, s_result, max_missed>>

\* One turn of the loop over the list.
SaveUrl ==
    /\ s_pc = "loop"
    /\ index < Len(s_image_urls)
    /\ \E o \in UrlOutcomes :
           LET r == ItemResult(o)
               counted == s_impl = "modular"
           IN  /\ attempts' = Append(attempts, [index |-> s_image_urls[index + 1],
                                                 outcome |-> o])
               /\ saved' = IF r = "saved" THEN saved \cup {index} ELSE saved
               /\ downloaded_count' =
                      IF counted THEN downloaded_count + DownloadedIncrement(o)
                      ELSE downloaded_count
               /\ failed_count' =
                      IF counted THEN failed_count + FailedIncrement(o)
                      ELSE failed_count
               /\ s_pc' = IF r = "raise" THEN "raised" ELSE "loop"
               /\ s_exc' = IF r = "raise" THEN "Exception" ELSE s_exc
    /\ index' = index + 1
    /\ UNCHANGED <<sessionVars, cliVars, utilVars, s_impl, s_image_urls, s_result, max_missed>>

\* The list is exhausted: the class method returns its success counter, the
\* legacy function returns nothing.
SaveReturn ==
    /\ s_pc = "loop"
    /\ index >= Len(s_image_urls)
    /\ s_result' = IF s_impl = "modular" THEN downloaded_count ELSE "None"
    /\ s_pc' = "returned"
    /\ UNCHANGED <<sessionVars, cliVars, utilVars, s_impl, s_image_urls, index, attempts, saved,
                   downloaded_count, failed_count, s_exc, max_missed>>

SaveNext == MakeDirs \/ SaveUrl \/ SaveReturn

InitSave == SessionIdle /\ SaveInit /\ CliIdle /\ UtilIdle

SpecSave == InitSave /\ [][SaveNext]_vars

\* The download of the k-th attempt failed.
DownloadFailed(k) == download_image(attempts[k].outcome) = "None"

\* C19: the download phase stops once max_missed downloads have failed: every
\* attempt is started with fewer than max_missed failed downloads behind it.
C19_StopsAfterMaxMissed ==
    \A k \in 1..Len(attempts) :
        Cardinality({j \in 1..(k - 1) : DownloadFailed(j)}) < max_missed

\* The number of attempts with outcome o.
CountOutcome(o) == Cardinality({k \in 1..Len(attempts) : attempts[k].outcome = o})

SavedAttempts == {k \in 1..Len(attempts) : attempts[k].outcome = "ok"}

\* The terms of a non-dry run for which URLs were found and the download
\* phase ran to its end.
DownloadedTerms ==
    {k \in 1..Len(scrapes) :
        ~args.dry_run /\ scrapes[k].found > 0 /\ scrapes[k].download = "ended"}

\* The record adds up: success, every URL found reported, and each of them
\* counted as downloaded or failed.
RecordAddsUp(k) ==
    /\ results[k].success
    /\ results[k].urls_found = scrapes[k].found
    /\ results[k].images_downloaded + results[k].failed_downloads = scrapes[k].found

\* C28: in the legacy command line, a term of a non-dry run for which
\* find_image_urls returned a non-empty list and whose download phase ran to
\* its end has a record with success true, urls_found the number of URLs
\* returned and images_downloaded + failed_downloads equal to that number.
C28_LegacyRecordAddsUp ==
    c_impl = "legacy" => \A k \in DownloadedTerms : RecordAddsUp(k)

\* The class method's command line does report such terms in full.
ModularRecordAddsUp ==
    c_impl = "modular" => \A k \in DownloadedTerms : RecordAddsUp(k)

\* C27: in the class method's save_images, after each iteration
\* downloaded_count + failed_count is the number of URLs processed so far,
\* each URL is counted in exactly one of the two counters, and on return the
\* sum is the length of the list, so that the failure count the command line
\* derives (len(image_urls) - downloaded_count) is the method's failed_count.
C27_CountersPartitionUrls ==
    (s_impl = "modular" /\ s_pc \in {"loop", "returned"}) =>
        /\ downloaded_count + failed_count = index
        /\ index = Len(attempts)
        /\ downloaded_count = Cardinality(SavedAttempts)
        /\ failed_count = Len(attempts) - Cardinality(SavedAttempts)
        /\ s_pc = "returned" =>
               /\ downloaded_count + failed_count = Len(s_image_urls)
               /\ s_result = downloaded_count
               /\ Len(s_image_urls) - s_result = failed_count

\* A list whose three URLs end in the except clause, at the resolution test
\* and with a saved file.
C27_Witness ==
    /\ s_pc = "returned"
    /\ s_impl = "modular"
    /\ Len(s_image_urls) = 3
    /\ \E a, b \in 1..3 :
           /\ attempts[a].outcome \in {"undecodable", "save_error"}
           /\ attempts[b].outcome = "bad_resolution"
    /\ downloaded_count = 1
    /\ failed_count = 2

-----------------------------------------------------------------------------
(* The command line: argument parsing, then one scrape per search term.     *)

Digits == "0123456789"

\* int(t) succeeds: an optional sign and at least one digit.
IsIntLiteral(t) ==
    LET signed == Len(t) > 0 /\ SubSeq(t, 1, 1) \in {"-", "+"}
        body == IF signed THEN SubSeq(t, 2, Len(t)) ELSE t
    IN  /\ Len(body) > 0
        /\ \A k \in 1..Len(body) : includes(Digits, SubSeq(body, k, k))

RECURSIVE DecNumber(_)
DecNumber(t) ==
    IF t = "" THEN 0
    ELSE DecNumber(SubSeq(t, 1, Len(t) - 1)) * 10
             + FirstIndex(Digits, SubSeq(t, Len(t), Len(t))) - 1

\* int(t) for a literal.
IntOf(t) ==
    IF SubSeq(t, 1, 1) = "-" THEN 0 - DecNumber(SubSeq(t, 2, Len(t)))
    ELSE IF SubSeq(t, 1, 1) = "+" THEN DecNumber(SubSeq(t, 2, Len(t)))
    ELSE DecNumber(t)

\* parse_resolution: 'WIDTHxHEIGHT' to the pair, or the argument error.
parse_resolution(resolution_str) ==
    LET k == FirstIndex(resolution_str, "x")
        width == SubSeq(resolution_str, 1, k - 1)
        height == SubSeq(resolution_str, k + 1, Len(resolution_str))
    IN  IF k = 0 \/ FirstIndex(height, "x") # 0 THEN [ok |-> FALSE]
        ELSE IF ~(IsIntLiteral(width) /\ IsIntLiteral(height)) THEN [ok |-> FALSE]
        ELSE [ok |-> TRUE, value |-> <<IntOf(width), IntOf(height)>>]

\* --format choices
FormatChoices == {"jpg", "png", "jpeg"}

\* The arguments tried.
CountArgs == {0 - 1, 0, 1, 1001}
MaxMissedArgs == {0, 10}
ResolutionArgs == {"0x0", "5x-5", "640"}
FormatArgs == {"jpg", "tiff"}
TermNames == {"cat dog", "cat_dog"}

\* --output default
PhotosDir == "photos"

\* The characters re.sub(r'[<>:"/\\|?*]', ...) replaces, and those \s matches.
InvalidChars == "<>:\"/\\|?*"
Whitespace == " \t\n\r\f"

\* re.sub(r'[<>:"/\\|?*]', '_', s)
ReplaceInvalid(s) ==
    LET RECURSIVE go(_)
        go(k) == IF k > Len(s) THEN ""
                 ELSE (IF includes(InvalidChars, SubSeq(s, k, k)) THEN "_"
                       ELSE SubSeq(s, k, k)) \o go(k + 1)
    IN  go(1)

\* re.sub(r'\s+', ' ', s): every run of whitespace becomes one space.
CollapseWhitespace(s) ==
    LET IsSpace(k) == includes(Whitespace, SubSeq(s, k, k))
        RECURSIVE go(_)
        go(k) == IF k > Len(s) THEN ""
                 ELSE IF ~IsSpace(k) THEN SubSeq(s, k, k) \o go(k + 1)
                 ELSE IF k > 1 /\ IsSpace(k - 1) THEN go(k + 1)
                 ELSE " " \o go(k + 1)
    IN  go(1)

\* str.strip()
Strip(s) ==
    LET IsSpace(k) == includes(Whitespace, SubSeq(s, k, k))
        kept == {k \in 1..Len(s) : ~IsSpace(k)}
    IN  IF kept = {} THEN ""
        ELSE SubSeq(s, CHOOSE k \in kept : \A j \in kept : k <= j,
                       CHOOSE k \in kept : \A j \in kept : k >= j)

\* str.replace(' ', '_')
SpacesToUnderscores(s) ==
    LET RECURSIVE go(_)
        go(k) == IF k > Len(s) THEN ""
                 ELSE (IF SubSeq(s, k, k) = " " THEN "_" ELSE SubSeq(s, k, k)) \o go(k + 1)
    IN  go(1)

clean_search_key(search_key) ==
    SpacesToUnderscores(Strip(CollapseWhitespace(ReplaceInvalid(search_key))))

\* os.path.join of a directory and a name
join(dir, name) ==
    IF Len(name) > 0 /\ SubSeq(name, 1, 1) = "/" THEN name
    ELSE IF dir = "" \/ SubSeq(dir, Len(dir), Len(dir)) = "/" THEN dir \o name
    ELSE dir \o "/" \o name

\* save_image / _save_image: the path of the file of the image at index.
image_path(images_dir_path, image_file_prefix, idx, save_format) ==
    join(images_dir_path, image_file_prefix \o "-" \o ToString(idx) \o "." \o save_format)

\* The files save_images writes for the term at position k when the images at
\* the indices accepted pass: cli.py names directory and prefix after the
\* cleaned term, the class method after the term as typed.
Writes(k, accepted) ==
    LET search_term == args.search_terms[k]
        clean_term == clean_search_key(search_term)
        name == IF c_impl = "legacy" THEN clean_term ELSE search_term
    IN  {[term |-> k, index |-> idx,
          path |-> image_path(join(PhotosDir, name), name, idx, config.image_save_format)]
         : idx \in accepted}

\* The parser accepts the arguments: every type conversion and choice passes.
ParserAccepts(a) ==
    /\ parse_resolution(a.min_res).ok
    /\ a.format \in FormatChoices

CliInit ==
    /\ c_impl \in {"legacy", "modular"}
    /\ args \in [count : CountArgs, max_missed : MaxMissedArgs, min_res : ResolutionArgs,
                 format : FormatArgs, dry_run : BOOLEAN,
                 search_terms : UNION {[1..n -> TermNames] : n \in 1..MaxTerms}]
    /\ config = "none"
    /\ c_pc = "parse_args"
    /\ term = 0
    /\ results = <<>>
    /\ raisedTerms = {}
    /\ launches = 0
    /\ summary = "none"
    /\ written = {}
    /\ scrapes = <<>>

\* parser.parse_args() and ScrapingConfig(...): a failed conversion or choice
\* ends the program with a usage error; nothing else is looked at.
ParseArgs ==
    /\ c_pc = "parse_args"
    /\ IF ParserAccepts(args)
       THEN /\ config' = [number_of_images |-> args.count,
                          max_missed |-> args.max_missed,
                          min_resolution |-> parse_resolution(args.min_res).value,
                          image_save_format |-> args.format]
            /\ c_pc' = "terms"
       ELSE /\ c_pc' = "usage_error"
            /\ UNCHANGED config
    /\ UNCHANGED <<sessionVars, saveVars, utilVars, c_impl, args, term, results, raisedTerms,
                   launches, summary, written, scrapes>>

\* The record of a term whose scrape went through.
SuccessRecord(search_term, found, downloaded, failed) ==
    [search_term |-> search_term, urls_found |-> found, images_downloaded |-> downloaded,
     failed_downloads |-> failed, success |-> TRUE]

\* The record of a term whose scrape raised.
FailureRecord(search_term, e) ==
    [search_term |-> search_term, urls_found |-> 0, images_downloaded |-> 0,
     failed_downloads |-> 0, success |-> FALSE, error |-> e]

\* The except clause of scrape_single_term.
OnTermExceptionReraise(e) == "raise"

OnTermException(e) == "record"

\* What scrape_single_term comes to when the scrape raised e.
TermRaised(e) ==
    /\ raisedTerms' = raisedTerms \cup {term + 1}
    /\ IF OnTermException(e) = "record"
       THEN /\ results' = Append(results, FailureRecord(args.search_terms[term + 1], e))
            /\ c_pc' = "terms"
       ELSE /\ UNCHANGED results
            /\ c_pc' = "aborted"

\* What it comes to when nothing raised.
TermDone(found, downloaded, failed) ==
    /\ results' = Append(results, SuccessRecord(args.search_terms[term + 1], found,
                                                downloaded, failed))
    /\ c_pc' = "terms"
    /\ UNCHANGED raisedTerms

\* downloaded, failed = await save_images(...) in cli.py: the legacy
\* save_images has no return statement, and unpacking None raises TypeError.
UnpackCounters(downloaded, failed) == "TypeError"

\* What the term's scrape did: the number of URLs find_image_urls returned
\* (-1 when it raised) and how the download phase ended.
Scraped(found, download) ==
    scrapes' = Append(scrapes, [found |-> found, download |-> download])

\* cli.py after the legacy save_images ran to its end.
LegacyDownloadEnded(found, downloaded, failed) ==
    IF UnpackCounters(downloaded, failed) = "TypeError"
    THEN TermRaised("TypeError")
    ELSE TermDone(found, UnpackCounters(downloaded, failed)[1],
                  UnpackCounters(downloaded, failed)[2])

\* One turn of main's loop: scrape_single_term and the append of its record.
ScrapeTerm ==
    /\ c_pc = "terms"
    /\ term < Len(args.search_terms)
    /\ term' = term + 1
    /\ launches' = launches + 1
    /\ \/ /\ TermRaised("find_image_urls raised")
          /\ Scraped(0 - 1, "skipped")
          /\ UNCHANGED written
       \/ \E found \in 0..MaxFound :
              IF args.dry_run
              THEN TermDone(found, 0, 0) /\ Scraped(found, "skipped") /\ UNCHANGED written
              ELSE IF c_impl = "legacy"
              THEN IF found = 0
                   THEN TermDone(found, 0, 0) /\ Scraped(found, "skipped") /\ UNCHANGED written
                   ELSE \/ /\ TermRaised("OSError")
                           /\ Scraped(found, "raised")
                           /\ UNCHANGED written
                        \/ \E accepted \in SUBSET (0..(found - 1)) :
                               /\ written' = written \cup Writes(term + 1, accepted)
                               /\ Scraped(found, "ended")
                               /\ LegacyDownloadEnded(found, Cardinality(accepted),
                                                      found - Cardinality(accepted))
              ELSE \/ /\ TermRaised("OSError")
                      /\ Scraped(found, "raised")
                      /\ UNCHANGED written
                   \/ \E accepted \in SUBSET (0..(found - 1)) :
                          /\ written' = written \cup Writes(term + 1, accepted)
                          /\ Scraped(found, "ended")
                          /\ TermDone(found, Cardinality(accepted),
                                      found - Cardinality(accepted))
    /\ UNCHANGED <<sessionVars, saveVars, utilVars, c_impl, args, config, summary>>

\* The summary: one line per record.
PrintSummary ==
    /\ c_pc = "terms"
    /\ term >= Len(args.search_terms)
    /\ summary' = results
    /\ c_pc' = "done"
    /\ UNCHANGED <<sessionVars, saveVars, utilVars, c_impl, args, config, term, results,
                   raisedTerms, launches, written, scrapes>>

CliNext == ParseArgs \/ ScrapeTerm \/ PrintSummary

InitCli == SessionIdle /\ SaveIdle /\ CliInit /\ UtilIdle

SpecCli == InitCli /\ [][CliNext]_vars

\* C7: every search term gets exactly one result record, in input order, and
\* the summary shows them all; the record of a term whose scrape raised has
\* success false, zero counts and the error message, and the terms after it
\* are still processed.
C7_OneRecordPerTerm ==
    /\ c_pc # "aborted"
    /\ Len(results) = term
    /\ \A k \in 1..Len(results) :
           /\ results[k].search_term = args.search_terms[k]
           /\ results[k].success <=> k \notin raisedTerms
           /\ k \in raisedTerms =>
                  /\ results[k].urls_found = 0
                  /\ results[k].images_downloaded = 0
                  /\ results[k].failed_downloads = 0
                  /\ "error" \in DOMAIN results[k]
    /\ c_pc = "done" =>
           /\ Len(summary) = Len(args.search_terms)
           /\ summary = results

C7_Witness ==
    /\ c_pc = "done"
    /\ Len(args.search_terms) >= 2
    /\ 1 \in raisedTerms
    /\ ~summary[1].success
    /\ summary[2].success
    /\ summary[2].urls_found > 0

\* validate_scraping_config: the ranges a configuration has to be in.
ConfigValid(a) ==
    /\ a.count >= 1 /\ a.count <= 1000
    /\ a.max_missed >= 1 /\ a.max_missed <= 100
    /\ parse_resolution(a.min_res).ok
    /\ parse_resolution(a.min_res).value[1] >= 0
    /\ parse_resolution(a.min_res).value[2] >= 0
    /\ a.format \in FormatChoices

\* C8: a configuration error (malformed or negative resolution, unsupported
\* format, image count or max-missed outside its range) is rejected before any
\* browser is launched.
C8_ConfigRejectedEagerly ==
    launches > 0 => ConfigValid(args)

\* C18: no two image writes have the same path: the writes of two sessions
\* for distinct search terms go to different files, and so do two writes of
\* one session.
C18_DistinctPaths ==
    \A w1, w2 \in written :
        (w1 # w2 /\ (w1.term = w2.term
                     \/ args.search_terms[w1.term] # args.search_terms[w2.term]))
            => w1.path # w2.path

\* Two writes of one session never share a path.
DistinctPathsInSession ==
    \A w1, w2 \in written : (w1 # w2 /\ w1.term = w2.term) => w1.path # w2.path

-----------------------------------------------------------------------------
(* Properties of the session.                                               *)

DefaultBlocklist == <<"encrypted-tbn", "logo", "favicon", "/s90/", "/s100/", "/s150/",
                      "=s64", "=s90", "=s100">>

Blocked(url) == \E k \in 1..Len(DefaultBlocklist) : includes(url, DefaultBlocklist[k])

NoDuplicates(s) == \A j, k \in 1..Len(s) : j # k => s[j] # s[k]

\* C1: a returned list never has more entries than the target count, for every
\* integer target count the command line accepts.
C1_AtMostTarget ==
    outcome = "returned" => Len(returned) <= number_of_images

\* C2: no returned URL contains an entry of the default blocklist, whichever
\* scan or click produced it and as the string stands after normalization.
C2_NoBlockedReturned ==
    outcome = "returned" => \A k \in 1..Len(returned) : ~Blocked(returned[k])

\* C3: the returned list, as normalized, holds no string twice.
C3_ReturnedUnique ==
    outcome = "returned" => NoDuplicates(returned)

\* The indices of s at which a string occurs for the first time.
FirstOccurrences(s) == {j \in 1..Len(s) : \A m \in 1..(j - 1) : s[m] # s[j]}

\* The finalized list is the first n first-occurrences of primary followed by
\* the fallback list: n long when that many distinct URLs exist, primary URLs
\* before the URLs only the fallback found.
FinalizedIsPrefixOfMerge ==
    LET all == primary \o clicked_urls
        first == FirstOccurrences(all)
    IN  /\ Len(image_urls) = Min(number_of_images, Cardinality(first))
        /\ \A k \in 1..Len(image_urls) :
               \E j \in first :
                   /\ Cardinality({m \in first : m < j}) = k - 1
                   /\ image_urls[k] = all[j]
        /\ \A j, k \in 1..Len(image_urls) :
               (image_urls[j] \notin Range(primary) /\ image_urls[k] \in Range(primary))
                   => k < j

\* C4: for every target count N, the finalized list is, before normalization,
\* exactly the first N entries of the order-preserving de-duplication of the
\* primary list followed by the fallback list, of length min(N, number of
\* distinct URLs), the primary URLs first.
C4_FinalizedIsPrefixOfMerge ==
    pc = "page_close" => FinalizedIsPrefixOfMerge

\* The same for the target counts that are not negative.
FinalizedForNonNegativeTarget ==
    (pc = "page_close" /\ number_of_images >= 0) => FinalizedIsPrefixOfMerge

FinalizedAfterFallback ==
    /\ pc = "page_close"
    /\ ranFallback
    /\ primary # <<>>
    /\ \E k \in 1..Len(clicked_urls) : clicked_urls[k] \in Range(primary)
    /\ \E k \in 1..Len(image_urls) : image_urls[k] \notin Range(primary)
    /\ Len(image_urls) = number_of_images

\* C5: once the browser has been launched, the call does not hand control back
\* (by returning, by raising, or by being cancelled) with the browser open.
C5_BrowserClosedOnExit ==
    (outcome # "running" /\ failedAt # "launch") => browser = "closed"

C5_Witness ==
    /\ outcome = "raised"
    /\ exc = "CancelledError"
    /\ failedAt = "loop"
    /\ browser = "closed"

\* The fallback decision has been taken in this call.
Decided ==
    \/ pc \in {"scroll", "locate", "loop", "selector", "escape", "truncate", "page_close"}
    \/ /\ pc \in {"finally", "propagate", "save_json", "done"}
       /\ failedAt \notin {"launch", "new_page", "goto", "evaluate"}

\* C9: the click fallback runs exactly when the text scan gave fewer URLs than
\* the target count; when it does not run, no scroll, click or key press is
\* issued.
C9_FallbackIffShort ==
    /\ Decided => (ranFallback <=> Len(primary) < number_of_images)
    /\ ~ranFallback => (scrolls = 0 /\ clicks = 0 /\ keys = 0)

C9_Witness ==
    /\ outcome = "returned"
    /\ number_of_images >= 1
    /\ Len(primary) = number_of_images
    /\ ~ranFallback
    /\ scrolls = 0

\* The position at which the scan first pushed url.
FirstPush(pushes, url) ==
    CHOOSE j \in 1..Len(pushes) :
        pushes[j] = url /\ \A m \in 1..(j - 1) : pushes[m] # url

\* A page with URLs of lengths 80, 60 and 95 and two blocked ones.
ExamplePage ==
    [scripts |-> <<[arrayLiteral |-> TRUE, urlMatches |-> <<U80, ULOGO>>]>>,
     metas |-> <<U60>>,
     doc |-> <<U95, UTBN>>]

ExampleScan == TextScan(ExamplePage)

C11_TextScanNotBlocked ==
    pc = "scanned" => \A k \in 1..Len(full_res_urls) : ~Blocked(full_res_urls[k])

\* C17: a session whose URL extraction completed (the page and the browser
\* were closed without an exception) has written one JSON artifact, and in
\* it total_urls is the length of image_urls.
C17_OneArtifactPerSession ==
    (pc = "done" /\ (outcome = "returned" \/ failedAt \in FileOperations)) =>
        /\ Cardinality(json) = 1
        /\ \A data \in json : data.total_urls = Len(data.image_urls)

\* C21: saving the URL list raises FileOperationError whenever a file-system
\* operation failed, creating the directory or opening and writing the file;
\* any other failure makes it return None without raising.
C21_FileOperationErrorOnOSError ==
    (failedAt \in FileOperations /\ pc = "propagate") => exc = "FileOperationError"

\* A failure to open or write the file is reported as FileOperationError.
OpenFailureIsFileOperationError ==
    (failedAt = "json_open" /\ pc = "propagate") => exc = "FileOperationError"

\* The places of the history holding an event of the kind op.
EventsOf(op) == {k \in 1..Len(events) : events[k].op = op}

\* The number of events of the kind op before place k.
Before_(op, k) == Cardinality({j \in EventsOf(op) : j < k})

\* The steps of the click loop.
LoopSteps == {"loop", "selector", "escape"}

\* The clicks stay under the cap, go through the containers in enumeration
\* order, one click each, and none follows the target_count-th append.
ClickLoopBounded ==
    /\ exc = "none" => clicks <= Min(containers, 2 * number_of_images)
    /\ Cardinality(EventsOf("click")) = clicks
    /\ \A k \in EventsOf("click") :
           /\ events[k].container = Before_("click", k) + 1
           /\ Before_("append", k) < number_of_images

\* The steps the loop can still take: NumSelectors + 2 for each container
\* under the cap not yet visited, and those left for the current one.
LoopVariant ==
    (max_attempts(containers, number_of_images) - i) * (NumSelectors + 2)
    + (IF pc = "selector" THEN NumSelectors - sel + 1
       ELSE IF pc = "escape" THEN 1 ELSE 0)

LoopStepLowersVariant ==
    pc \in LoopSteps => (pc' \notin LoopSteps \/ LoopVariant' < LoopVariant)

\* C23: the click-fallback loop terminates for every page: it clicks at most
\* min(available_containers, 2 * target_count) containers, each at most once
\* and in enumeration order, and clicks no container once target_count URLs
\* have been collected.  Termination: every step taken inside the loop
\* lowers a measure that never goes below zero.
C23_ClickLoopTerminates ==
    /\ []ClickLoopBounded
    /\ [](pc \in LoopSteps => LoopVariant >= 0)
    /\ [][LoopStepLowersVariant]_vars

\* The cap ended the loop: three containers, a target of one, two clicks
\* and no URL.
C23_Witness ==
    /\ pc = "truncate"
    /\ containers = 3
    /\ number_of_images = 1
    /\ clicks = 2
    /\ clicked_urls = <<>>

\* The last entry of the history, when there is one.
LastEvent == events[Len(events)]

\* C24: every URL the click fallback appends contains "http", does not
\* contain the thumbnail marker and is longer than 50 characters; each
\* container contributes at most one URL, that of the first strategy whose
\* source is accepted; a source that is not accepted is not appended and the
\* next strategy is tried while one is left.
AppendedAreAccepted ==
    /\ \A k \in 1..Len(clicked_urls) :
           /\ includes(clicked_urls[k], "http")
           /\ ~includes(clicked_urls[k], "encrypted-tbn")
           /\ Len(clicked_urls[k]) > 50
    /\ \A j, k \in EventsOf("append") :
           j # k => events[j].container # events[k].container
    /\ exc = "none" => Len(clicked_urls) = Cardinality(EventsOf("append"))

StrategyStep ==
    pc = "selector" =>
        \/ /\ Len(clicked_urls') = Len(clicked_urls) + 1
           /\ pc' = "escape"
        \/ /\ clicked_urls' = clicked_urls
           /\ sel' = sel + 1
           /\ pc' = IF sel' < NumSelectors THEN "selector" ELSE "escape"
        \/ pc' = UnwindTo

C24_ClickedUrlsAccepted ==
    /\ []AppendedAreAccepted
    /\ [][StrategyStep]_vars

\* The third strategy's source was accepted after two strategies gave none.
C24_Witness ==
    /\ pc = "escape"
    /\ sel = 3
    /\ Len(clicked_urls) = 2
    /\ Len(events) > 0
    /\ LastEvent.op = "append"

\* A call of the container's try block raised in this step.
RaisedInStep ==
    /\ Len(events') = Len(events) + 1
    /\ events'[Len(events')].raised # "none"

\* C25: an exception raised while one container is handled is swallowed: the
\* URLs collected so far are kept, no exception leaves the loop, and the loop
\* goes on to the next container.
ContainerFailureSwallowed ==
    RaisedInStep =>
        /\ clicked_urls' = clicked_urls
        /\ exc' = "none"
        /\ pc' = "loop"
        /\ i' = events'[Len(events')].container

C25_ContainerFailureSwallowed == [][ContainerFailureSwallowed]_vars

\* A container whose handling raised is followed by one whose source is
\* accepted, and the session returns both containers' worth of work.
C25_Witness ==
    /\ outcome = "returned"
    /\ \E j, k \in 1..Len(events) :
           /\ j < k
           /\ events[j].raised # "none"
           /\ events[k].op = "append"
           /\ events[k].container > events[j].container
    /\ Len(returned) > 0

\* The entries between two positions of the history that record a sent Escape.
EscapesBetween(j, k) ==
    {e \in EventsOf("escape") : j < e /\ e < k /\ events[e].raised = "none"}

\* C26: after every container whose click succeeded an Escape key press is
\* sent before the next container is clicked.
C26_EscapeBetweenClicks ==
    \A j, k \in EventsOf("click") :
        (j < k /\ events[j].raised # "click") => EscapesBetween(j, k) # {}

\* When neither the wait behind the click nor the key press raises, an
\* Escape is sent between any two clicks.
EscapeBetweenClicksUnlessRaised ==
    \A j, k \in EventsOf("click") :
        (/\ j < k
         /\ events[j].raised = "none"
         /\ \A e \in 1..Len(events) : events[e].raised # "press")
        => EscapesBetween(j, k) # {}

\* C29: the image_urls list stored in a session's JSON artifact is
\* element for element the list find_image_urls returns for that session.
C29_ArtifactEqualsReturned ==
    outcome = "returned" => \A artifact \in json : artifact.image_urls = returned

\* The stored list is the returned list decoded once more.
ArtifactIsReturnedDecodedAgain ==
    outcome = "returned" => \A artifact \in json : artifact.image_urls = Cleaned(returned)

\* C30: when the click fallback ran and find_image_urls returns fewer than
\* the target count, every container up to the cap was attempted.
C30_ShortResultTriedAllContainers ==
    (outcome = "returned" /\ ranFallback /\ Len(returned) < number_of_images)
        => clicks = max_attempts(containers, number_of_images)

\* What the loop's test does guarantee: it stops early only once the click
\* fallback's own list, duplicates included, has reached the target count.
StopsEarlyOnlyWithEnoughClicked ==
    (outcome = "returned" /\ ranFallback
        /\ Cardinality(EventsOf("append")) < number_of_images)
        => clicks = max_attempts(containers, number_of_images)

\* Whenever an artifact is written its count matches its list.
ArtifactCountMatches ==
    \A data \in json : data.total_urls = Len(data.image_urls)

-----------------------------------------------------------------------------
(* The helpers called alone, each on arguments drawn from a small set.      *)

otherThanUtil == <<sessionVars, saveVars, cliVars>>

UtilInit ==
    /\ u_pc = "ready"
    /\ u_fn = "none"
    /\ u_args = "none"
    /\ u_result = "none"
    /\ u_again = FALSE

\* The strings decode_url is tried on.
DecodeInputs ==
    {"https://example.com/normal.jpg",
     "https://example.com/image%20name.jpg",
     "https://example.com/caf%C3%A9.jpg",
     "https://example.com/café.jpg",
     "https://example.com/a.jpg?k\\u003dv",
     "https://example.com/a\\u002541.jpg",
     "https://example.com/a%5Cu003d.jpg",
     "https://example.com/a%2520b.jpg",
     "https://example.com/a%20b\\x4.jpg",
     "https://example.com/a%zz.jpg",
     "https://example.com/a.jpg\\",
     "example.com/no scheme"}

CallDecodeUrl ==
    /\ u_pc = "ready"
    /\ \E url \in DecodeInputs :
           /\ u_args' = [url |-> url]
           /\ u_result' = decode_url(url)
    /\ u_fn' = "decode_url"
    /\ u_pc' = "called"
    /\ u_again' = FALSE
    /\ UNCHANGED otherThanUtil

\* The caller takes the result and the call's frame is gone; the next call
\* can be made.
UtilReturn ==
    /\ u_pc = "called"
    /\ u_pc' = "ready"
    /\ u_fn' = "none"
    /\ u_args' = "none"
    /\ u_result' = "none"
    /\ u_again' = FALSE
    /\ UNCHANGED otherThanUtil

\* The string holds neither a backslash nor a percent sign.
NoEscape(url) == ~includes(url, "\\") /\ ~includes(url, "%")

DecodeOf(url) == u_fn = "decode_url" /\ u_args.url = url

\* C13: decode_url returns a URL without backslash and percent escapes
\* unchanged, turns a percent escape into the character it encodes (%20 into a
\* space, the UTF-8 bytes %C3%A9 into e-acute) and a backslash-u escape for
\* "=" into "=", backslash escapes being decoded before percent escapes.
C13_DecodeUrl ==
    /\ (u_fn = "decode_url" /\ NoEscape(u_args.url)) => u_result = u_args.url
    /\ DecodeOf("https://example.com/image%20name.jpg")
           => u_result = "https://example.com/image name.jpg"
    /\ DecodeOf("https://example.com/caf%C3%A9.jpg")
           => u_result = "https://example.com/café.jpg"
    /\ DecodeOf("https://example.com/a.jpg?k\\u003dv")
           => u_result = "https://example.com/a.jpg?k=v"
    /\ DecodeOf("https://example.com/a\\u002541.jpg")
           => u_result = "https://example.com/aA.jpg"
    /\ DecodeOf("https://example.com/a%5Cu003d.jpg")
           => u_result = "https://example.com/a\\u003d.jpg"

\* The post-processing steps of find_image_urls on a list of candidates:
\* de-duplication, truncation, cleaning.
PostProcess(urls, n) == Cleaned(Truncated(Unique(urls), n))

\* The candidates the post-processing steps are tried on.
PostInputs ==
    {"https://example.com/a.jpg",
     "https://example.com/a%2520b.jpg",
     "https://example.com/a.jpg?k\\u003dv",
     "https://example.com/a.jpg?k=v"}

CallPostProcess ==
    /\ u_pc = "ready"
    /\ \E urls \in SeqsUpTo(PostInputs, MaxList), n \in 1..MaxList :
           /\ u_args' = [urls |-> urls, n |-> n]
           /\ u_result' = PostProcess(urls, n)
    /\ u_fn' = "post_process"
    /\ u_pc' = "called"
    /\ u_again' = FALSE
    /\ UNCHANGED otherThanUtil

\* The steps run a second time, on the list they produced.
PostProcessAgain ==
    /\ u_pc = "called"
    /\ u_fn = "post_process"
    /\ ~u_again
    /\ u_args' = [urls |-> u_result, n |-> u_args.n]
    /\ u_result' = PostProcess(u_result, u_args.n)
    /\ u_again' = TRUE
    /\ UNCHANGED <<otherThanUtil, u_pc, u_fn>>

\* C12: the post-processing steps (de-duplicate, truncate to the target count,
\* normalize each entry) applied to a list they produced return that list.
C12_PostProcessIdempotent ==
    (u_fn = "post_process" /\ u_again) => u_result = u_args.urls

\* URLs whose backslash escapes cannot be decoded (a truncated \x escape, a
\* backslash at the end), and URLs that can be normalized.
Malformed == {"https://example.com/a%20b\\x4.jpg", "https://example.com/a.jpg\\"}
WellFormed == {"https://example.com/image%20name.jpg", "https://example.com/a.jpg?k\\u003dv"}

\* What each of them is to come out as.
ExpectedClean(url) ==
    CASE url = "https://example.com/image%20name.jpg" -> "https://example.com/image name.jpg"
      [] url = "https://example.com/a.jpg?k\\u003dv" -> "https://example.com/a.jpg?k=v"
      [] OTHER -> url

\* The cleaning loop over a truncated list.
CallCleaned ==
    /\ u_pc = "ready"
    /\ \E urls \in SeqsUpTo(Malformed \cup WellFormed, MaxList) :
           /\ u_args' = [urls |-> urls]
           /\ u_result' = Cleaned(urls)
    /\ u_fn' = "clean"
    /\ u_pc' = "called"
    /\ u_again' = FALSE
    /\ UNCHANGED otherThanUtil

\* C14: when normalizing one URL of the truncated list fails, the cleaned list
\* has the URL's original string at its position, every other entry
\* normalized, and the length and order of the truncated list.
C14_FailedEntryKeepsOriginal ==
    u_fn = "clean" =>
        /\ Len(u_result) = Len(u_args.urls)
        /\ \A k \in 1..Len(u_result) : u_result[k] = ExpectedClean(u_args.urls[k])

C14_Witness ==
    /\ u_fn = "clean"
    /\ u_pc = "called"
    /\ u_args.urls = <<"https://example.com/image%20name.jpg",
                       "https://example.com/a%20b\\x4.jpg">>
    /\ u_result = <<"https://example.com/image name.jpg",
                    "https://example.com/a%20b\\x4.jpg">>

UpperCase == "ABCDEFGHIJKLMNOPQRSTUVWXYZ"
LowerCase == "abcdefghijklmnopqrstuvwxyz"

\* str.lower() on the ASCII letters.
RECURSIVE lower(_)
lower(s) ==
    LET at == {k \in 1..Len(s) : includes(UpperCase, SubSeq(s, k, k))}
        k == CHOOSE k \in at : \A j \in at : k <= j
        n == FirstIndex(UpperCase, SubSeq(s, k, k))
    IN  IF at = {} THEN s
        ELSE SubSeq(s, 1, k - 1) \o SubSeq(LowerCase, n, n) \o lower(SubSeq(s, k + 1, Len(s)))

\* filter_thumbnail_urls: a URL is kept when no pattern occurs in its
\* lower-cased form and it is longer than 50 characters.
filter_thumbnail_urls(urls, thumbnail_patterns) ==
    LET is_thumbnail(url) ==
            \E k \in 1..Len(thumbnail_patterns) :
                includes(lower(url), thumbnail_patterns[k])
    IN  SelectSeq(urls, LAMBDA url : ~is_thumbnail(url) /\ Len(url) > ThumbLen)

\* The URLs and pattern lists of the repository's test, and a URL with the
\* pattern in upper case.
FilterUrls ==
    {"https://example.com/full-resolution.jpg",
     "https://example.com/encrypted-tbn-thumbnail.jpg",
     "https://example.com/logo.png",
     "https://example.com/image/s90/small.jpg",
     "https://example.com/high-quality-image-with-long-url.jpg",
     "https://example.com/high-quality-image-of-the-LOGO.jpg"}

FilterPatterns == {<<>>, <<"logo">>, <<"encrypted-tbn", "logo", "/s90/", "=s64">>}

CallFilterThumbnailUrls ==
    /\ u_pc = "ready"
    /\ \E urls \in SeqsUpTo(FilterUrls, MaxList), patterns \in FilterPatterns :
           /\ u_args' = [urls |-> urls, thumbnail_patterns |-> patterns]
           /\ u_result' = filter_thumbnail_urls(urls, patterns)
    /\ u_fn' = "filter_thumbnail_urls"
    /\ u_pc' = "called"
    /\ u_again' = FALSE
    /\ UNCHANGED otherThanUtil

\* C15: filter_thumbnail_urls keeps, in input order, exactly the URLs that
\* contain none of the patterns as a case-sensitive substring; nothing else
\* decides, and an empty pattern list blocks no URL.
C15_FilterByPatternsAlone ==
    u_fn = "filter_thumbnail_urls" =>
        u_result = SelectSeq(u_args.urls,
                             LAMBDA url : \A k \in 1..Len(u_args.thumbnail_patterns) :
                                 ~includes(url, u_args.thumbnail_patterns[k]))

\* The same test with the lower bound on the width exclusive.
validate_resolution_exclusive(width, height, min_resolution, max_resolution) ==
    /\ min_resolution[1] < width /\ width <= max_resolution[1]
    /\ min_resolution[2] <= height /\ height <= max_resolution[2]

\* validate_resolution
validate_resolution(width, height, min_resolution, max_resolution) ==
    /\ min_resolution[1] <= width /\ width <= max_resolution[1]
    /\ min_resolution[2] <= height /\ height <= max_resolution[2]

\* check_if_image_resolution_valid on an image of size image_resolution: the
\* size is a pair and never empty, so the comparison always runs.
check_if_image_resolution_valid(image_resolution, min_resolution, max_resolution) ==
    IF Len(image_resolution) > 0
    THEN /\ image_resolution[1] >= min_resolution[1]
         /\ image_resolution[1] <= max_resolution[1]
         /\ image_resolution[2] >= min_resolution[2]
         /\ image_resolution[2] <= max_resolution[2]
    ELSE FALSE

Dims == 0..MaxDim

CallValidateResolution ==
    /\ u_pc = "ready"
    /\ \E width, height \in Dims, min_resolution, max_resolution \in Dims \X Dims :
           /\ u_args' = [width |-> width, height |-> height,
                         min_resolution |-> min_resolution,
                         max_resolution |-> max_resolution]
           /\ \/ /\ u_fn' = "validate_resolution"
                 /\ u_result' = validate_resolution(width, height, min_resolution,
                                                    max_resolution)
              \/ /\ u_fn' = "check_if_image_resolution_valid"
                 /\ u_result' = check_if_image_resolution_valid(<<width, height>>,
                                                                min_resolution,
                                                                max_resolution)
    /\ u_pc' = "called"
    /\ u_again' = FALSE
    /\ UNCHANGED otherThanUtil

\* C16: an image is accepted if and only if its width lies in
\* min.width..max.width and its height in min.height..max.height, both ends
\* included: a size on a bound is accepted, one pixel outside is rejected.
C16_ResolutionInclusive ==
    u_fn \in {"validate_resolution", "check_if_image_resolution_valid"} =>
        LET a == u_args
            widths == a.min_resolution[1]..a.max_resolution[1]
            heights == a.min_resolution[2]..a.max_resolution[2]
        IN  /\ u_result <=> (a.width \in widths /\ a.height \in heights)
            /\ (a.width = a.min_resolution[1] /\ a.width <= a.max_resolution[1]
                    /\ a.height \in heights) => u_result
            /\ (a.width = a.max_resolution[1] /\ a.width >= a.min_resolution[1]
                    /\ a.height \in heights) => u_result
            /\ (a.width = a.min_resolution[1] - 1 \/ a.width = a.max_resolution[1] + 1
                    \/ a.height = a.min_resolution[2] - 1
                    \/ a.height = a.max_resolution[2] + 1) => ~u_result

C16_Witness ==
    /\ u_fn = "check_if_image_resolution_valid"
    /\ u_pc = "called"
    /\ u_args.min_resolution = <<1, 1>>
    /\ u_args.max_resolution = <<2, 3>>
    /\ u_args.width = 1
    /\ u_args.height = 3
    /\ u_result = TRUE

\* A Python value: a string, or None.
PyStr(s) == [type |-> "str", value |-> s]
PyNone == [type |-> "NoneType", value |-> ""]

\* The first place of s holding one of chars (0 when there is none).
FirstOf(s, chars) ==
    LET at == {k \in 1..Len(s) : includes(chars, SubSeq(s, k, k))}
    IN  IF at = {} THEN 0 ELSE CHOOSE k \in at : \A j \in at : k <= j

\* The last place of s holding c (0 when there is none).
LastIndex(s, c) ==
    LET at == {k \in 1..Len(s) : SubSeq(s, k, k) = c}
    IN  IF at = {} THEN 0 ELSE CHOOSE k \in at : \A j \in at : k >= j

endswith(s, suffix) ==
    Len(s) >= Len(suffix) /\ SubSeq(s, Len(s) - Len(suffix) + 1, Len(s)) = suffix

SchemeChars == LowerCase \o UpperCase \o Digits \o "+-."

\* The schemes whose last path segment may carry ;parameters.
UsesParams == {"", "ftp", "http", "https", "sftp"}

\* The text before the first place of s holding one of chars (all of s when
\* there is none), and the text from that place on.
Before(s, chars) ==
    LET d == FirstOf(s, chars) IN IF d = 0 THEN s ELSE SubSeq(s, 1, d - 1)
From(s, chars) ==
    LET d == FirstOf(s, chars) IN IF d = 0 THEN "" ELSE SubSeq(s, d, Len(s))

\* urlsplit's scheme: what stands before the first colon when that is a
\* letter followed by letters, digits, +, - or . (the empty string otherwise).
HasScheme(url) ==
    LET colon == FirstIndex(url, ":")
    IN  /\ colon > 1
        /\ includes(LowerCase \o UpperCase, SubSeq(url, 1, 1))
        /\ \A k \in 1..(colon - 1) : includes(SchemeChars, SubSeq(url, k, k))
SchemeOf(url) ==
    IF HasScheme(url) THEN lower(SubSeq(url, 1, FirstIndex(url, ":") - 1)) ELSE ""
AfterScheme(url) ==
    IF HasScheme(url) THEN SubSeq(url, FirstIndex(url, ":") + 1, Len(url)) ELSE url

\* The netloc follows "//" up to the next /, ? or #.
HasNetloc(rest) == Len(rest) >= 2 /\ SubSeq(rest, 1, 2) = "//"
NetlocOf(rest) ==
    IF HasNetloc(rest) THEN Before(SubSeq(rest, 3, Len(rest)), "/?#") ELSE ""
AfterNetloc(rest) ==
    IF HasNetloc(rest) THEN From(SubSeq(rest, 3, Len(rest)), "/?#") ELSE rest

\* _splitparams: the ;parameters of the last path segment are cut off.
SplitParams(scheme, p) ==
    LET slash == LastIndex(p, "/")
        semi == FirstIndex(SubSeq(p, slash + 1, Len(p)), ";")
    IN  IF scheme \in UsesParams /\ semi > 0 THEN SubSeq(p, 1, slash + semi - 1) ELSE p

\* urllib.parse.urlparse: scheme, netloc and path, the fragment, the query
\* and the parameters cut off the path.  A netloc with one bracket only
\* raises ValueError.
urlparse(url) ==
    LET rest == AfterScheme(url)
        netloc == NetlocOf(rest)
    IN  [scheme |-> SchemeOf(url), netloc |-> netloc,
         path |-> SplitParams(SchemeOf(url), Before(Before(AfterNetloc(rest), "#"), "?")),
         raises |-> includes(netloc, "[") # includes(netloc, "]")]

\* The extensions is_valid_image_url looks for, and the image types of
\* mimetypes.types_map.
image_extensions == {".jpg", ".jpeg", ".png", ".webp", ".gif", ".bmp"}
MimeImageExtensions ==
    {".bmp", ".gif", ".ief", ".jpg", ".jpe", ".jpeg", ".heic", ".heif", ".png", ".svg",
     ".tiff", ".tif", ".ico", ".ras", ".pnm", ".pbm", ".pgm", ".ppm", ".rgb", ".xbm",
     ".xpm", ".xwd", ".webp", ".avif"}

\* posixpath.splitext(p)[1]: from the last dot of the last segment, unless
\* the segment starts with it.
splitext(p) ==
    LET slash == LastIndex(p, "/")
        name == SubSeq(p, slash + 1, Len(p))
        dot == LastIndex(name, ".")
    IN  IF dot > 0 /\ \E k \in 1..(dot - 1) : SubSeq(name, k, k) # "."
        THEN SubSeq(name, dot, Len(name)) ELSE ""

\* urllib.parse._splittype: the scheme is what stands before the first
\* colon when no slash is in it.
HasType(url) ==
    LET colon == FirstIndex(url, ":")
    IN  colon > 1 /\ ~includes(SubSeq(url, 1, colon - 1), "/")
TypeOf(url) == IF HasType(url) THEN lower(SubSeq(url, 1, FirstIndex(url, ":") - 1)) ELSE ""
AfterType(url) ==
    IF HasType(url) THEN SubSeq(url, FirstIndex(url, ":") + 1, Len(url)) ELSE url

\* The media type of a data: URL names an image.
DataUrlIsImage(data) ==
    LET bare == Before(Before(data, ","), ";")
    IN  /\ includes(data, ",")
        /\ ~includes(bare, "=") /\ includes(bare, "/")
        /\ Len(bare) >= 6 /\ SubSeq(bare, 1, 6) = "image/"

\* mimetypes.guess_type(url) names an image type: the text after the scheme
\* is split at its extension, query and fragment included.
guesses_image(url) ==
    IF TypeOf(url) = "data" THEN DataUrlIsImage(AfterType(url))
    ELSE lower(splitext(AfterType(url))) \in MimeImageExtensions

is_valid_image_url(url) ==
    IF url.type # "str" \/ url.value = "" THEN FALSE
    ELSE LET parsed == urlparse(url.value)
             path == lower(parsed.path)
         IN  IF parsed.raises THEN FALSE
             ELSE IF parsed.scheme = "" \/ parsed.netloc = "" THEN FALSE
             ELSE IF \E ext \in image_extensions : endswith(path, ext) THEN TRUE
             ELSE guesses_image(url.value)

\* The values of test_is_valid_image_url, and a URL without scheme.
ValidityInputs ==
    {PyStr("https://example.com/image.jpg"), PyStr("http://site.com/photo.png"),
     PyStr("https://cdn.example.com/pic.webp"),
     PyStr("https://example.com/image.jpeg?size=large"),
     PyStr(""), PyNone, PyStr("not_a_url"), PyStr("https://example.com/page.html"),
     PyStr("ftp://example.com/image.jpg"), PyStr("https:///image.jpg"),
     PyStr("//example.com/image.jpg")}

CallIsValidImageUrl ==
    /\ u_pc = "ready"
    /\ \E url \in ValidityInputs :
           /\ u_args' = [url |-> url]
           /\ u_result' = is_valid_image_url(url)
    /\ u_fn' = "is_valid_image_url"
    /\ u_pc' = "called"
    /\ u_again' = FALSE
    /\ UNCHANGED otherThanUtil

\* The value is a string that is an http or https URL with a host, whose path
\* (the text between the host and a ? or #) ends in an image extension.
HttpImageUrl(url) ==
    /\ url.type = "str"
    /\ \E head \in {"http://", "https://"} :
           /\ Len(url.value) > Len(head)
           /\ SubSeq(url.value, 1, Len(head)) = head
           /\ LET after == SubSeq(url.value, Len(head) + 1, Len(url.value))
              IN  /\ Before(after, "/?#") # ""
                  /\ \E ext \in image_extensions :
                         endswith(Before(From(after, "/?#"), "?#"), ext)

\* C20: is_valid_image_url returns true exactly for the http and https URLs
\* with a host whose path ends in an image extension, a query string after
\* it allowed; it returns false for the empty string, None, a string
\* without scheme, a URL of another scheme such as ftp, and a URL without
\* host.
C20_ValidExactlyHttpImage ==
    u_fn = "is_valid_image_url" => (u_result <=> HttpImageUrl(u_args.url))

\* Matches around the whole-document threshold, and a blocked one.
D49 == MkUrl("https://cdn.example.com/d/", ".jpg", 49)
D50 == MkUrl("https://cdn.example.com/d/", ".jpg", 50)
D51 == MkUrl("https://cdn.example.com/d/", ".jpg", 51)
ScanInputs == {D49, D50, D51, U95, UTBN}

\* One method of the extraction script on a page part holding one match:
\* a script tag with an array literal, a meta tag, the document.
CallScanMethod ==
    /\ u_pc = "ready"
    /\ \E url \in ScanInputs :
           \/ /\ u_args' = [method |-> 1, url |-> url]
              /\ u_result' = Method1([arrayLiteral |-> TRUE, urlMatches |-> <<url>>])
           \/ /\ u_args' = [method |-> 2, url |-> url]
              /\ u_result' = Method2(url)
           \/ /\ u_args' = [method |-> 3, url |-> url]
              /\ u_result' = Method3(<<url>>)
    /\ u_fn' = "scan_method"
    /\ u_pc' = "called"
    /\ u_again' = FALSE
    /\ UNCHANGED otherThanUtil

\* C22: a match of the whole document that is not blocked is discarded if
\* and only if it is shorter than 50 characters, so a match of exactly 50
\* survives; a match of a script tag or a meta tag that is not blocked is
\* kept whatever its length.
C22_DocumentThreshold ==
    (u_fn = "scan_method" /\ ~Blocked(u_args.url)) =>
        IF u_args.method = 3
        THEN (u_result = <<>>) <=> (Len(u_args.url) < 50)
        ELSE u_result = <<u_args.url>>

\* Script-tag and meta-tag matches pass no length test.
NoThresholdOutsideDocument ==
    (u_fn = "scan_method" /\ ~Blocked(u_args.url) /\ u_args.method # 3) =>
        u_result = <<u_args.url>>

UtilNext ==
    \/ CallDecodeUrl \/ CallPostProcess \/ PostProcessAgain \/ CallCleaned
    \/ CallFilterThumbnailUrls \/ CallValidateResolution \/ CallIsValidImageUrl
    \/ CallScanMethod
    \/ UtilReturn

InitUtil == SessionIdle /\ SaveIdle /\ CliIdle /\ UtilInit

SpecUtil == InitUtil /\ [][UtilNext]_vars

====
